---- MODULE Spec2Model ----
(***************************************************************************)
(* EduTutor AI: the in-memory session store (utils/session_manager.py),    *)
(* the AI client (services/ai_service.py), the quiz flow                   *)
(* (page_modules/quiz.py, page_modules/login.py, app.py) and the buttons   *)
(* and figures of page_modules/dashboard.py and page_modules/analytics.py. *)
(*                                                                         *)
(* Python values are modelled as follows.                                  *)
(*   - str: a TLA+ string; len() is Len, + and f-strings are \o.  An       *)
(*     email, whose characters the code inspects, is a sequence of         *)
(*     one-character strings.                                              *)
(*   - dict: a function whose DOMAIN is the set of keys.  The value of a   *)
(*     question's "options", which the code type-tests, carries its type.  *)
(*   - None / Optional: <<>> is None and <<v>> is the value v.             *)
(*   - float: score_percentage is the exact fraction num/den; IEEE double  *)
(*     rounding of (c / t) * 100 moves no threshold comparison for t < 200.*)
(*     get_user_stats, whose means are rounded, works on the doubles.      *)
(***************************************************************************)
EXTENDS Integers, Sequences, FiniteSets, TLC

VARIABLES
    authenticated,   \* st.session_state.authenticated
    current_user,    \* st.session_state.current_user (Optional)
    users,           \* st.session_state.users: username -> account
    quiz_history,    \* st.session_state.quiz_history: username -> list
    current_page,    \* st.session_state.current_page
    requested_page,  \* st.session_state.requested_page (Optional: key absent)
    current_quiz,    \* st.session_state.current_quiz (Optional)
    quiz_answers,    \* st.session_state.quiz_answers: str(id) -> label
    quiz_submitted,  \* st.session_state.quiz_submitted
    quiz_results,    \* st.session_state.quiz_results (Optional)
    shown,           \* the screen the last script run rendered
    now,             \* datetime.now(), in ticks
    nav_selector,    \* st.session_state.nav_selector (Optional: key absent)
    saved_attempts,  \* history variable: username -> the arguments of the
                     \* calls of save_quiz_result made while that user was
                     \* logged in, in the order of the calls
    quiz_owner,      \* history variable: the value of current_user at the
                     \* call of generate_quiz that stored current_quiz
    ret              \* the last call: its name, arguments and return value

vars == <<authenticated, current_user, users, quiz_history, current_page,
          requested_page, current_quiz, quiz_answers, quiz_submitted,
          quiz_results, shown, now, nav_selector, saved_attempts,
          quiz_owner, ret>>

session == <<authenticated, current_user, users, quiz_history>>
navigation == <<current_page, requested_page, shown>>
quizflow == <<current_quiz, quiz_answers, quiz_submitted, quiz_results>>

----
\* Bounds of the model.

\* largest question count requested from generate_quiz
MaxQuestions == 3
\* longest model response, in tokens
MaxTextLen == 4
\* the question count of the quiz that the scoring is run on
ScoreQuestions == 10
\* largest value of the clock
MaxClock == 1
\* most attempts kept in one user's history
MaxHistory == 1
\* most attempts kept in one user's history when the session manager is
\* called on its own
StoreHistory == 2
\* most attempts in the history that get_user_stats is run on
StatsHistory == 6
\* the last day of the calendar, whose first day is day 0
MaxDay == 6

----
\* Python values.

None == <<>>
Some(v) == <<v>>
IsNone(o) == o = <<>>
TheValue(o) == o[1]

PyDict(f) == [type |-> "dict", value |-> f]
PyList(s) == [type |-> "list", value |-> s]
\* isinstance(v, dict)
IsInstanceDict(v) == v.type = "dict"
\* len(v)
PyLen(v) == IF v.type = "dict" THEN Cardinality(DOMAIN v.value) ELSE Len(v.value)
\* x in v
PyIn(x, v) ==
    IF v.type = "dict" THEN x \in DOMAIN v.value
    ELSE \E i \in 1..Len(v.value) : v.value[i] = x

Min(a, b) == IF a <= b THEN a ELSE b

\* str.lower() on the subjects and difficulties of the model
Lower(s) ==
    CASE s = "Programming Fundamentals" -> "programming fundamentals"
      [] s = "Machine Learning" -> "machine learning"
      [] s = "Mobile App Development" -> "mobile app development"
      [] s = "History" -> "history"
      [] s = "Easy" -> "easy"
      [] s = "Medium" -> "medium"
      [] s = "Hard" -> "hard"
      [] OTHER -> s

----
\* services/ai_service.py: the static question bank.

\* one bank entry (it has no "id" yet)
BankQuestion(q, a, b, c, d, correct, explanation, topic) ==
    [question |-> q,
     options |-> PyDict([A |-> a, B |-> b, C |-> c, D |-> d]),
     correct_answer |-> correct,
     explanation |-> explanation,
     topic |-> topic]

enhanced_questions ==
    ("Programming Fundamentals" :>
        [Easy |-> <<
            BankQuestion("What is a variable in programming?",
                "A function that performs calculations",
                "A storage location with an associated name",
                "A type of loop structure", "A debugging tool", "B",
                "A variable is a storage location paired with an associated symbolic name that contains data, referred to as the variable's value.",
                "Programming Concepts"),
            BankQuestion("Which of the following is a programming language?",
                "HTML", "CSS", "Python", "JSON", "C",
                "Python is a high-level programming language. HTML and CSS are markup languages, while JSON is a data format.",
                "Programming Languages"),
            BankQuestion("What is the purpose of comments in code?",
                "To make code run faster", "To explain what the code does",
                "To create variables", "To handle errors", "B",
                "Comments are used to explain code functionality and make it more readable for other developers.",
                "Code Documentation"),
            BankQuestion("What is debugging?",
                "Writing new code", "Deleting old code",
                "Finding and fixing errors in code", "Compiling code", "C",
                "Debugging is the process of finding and resolving defects or problems within a computer program.",
                "Programming Process"),
            BankQuestion("What does IDE stand for?",
                "Internet Development Environment",
                "Integrated Development Environment",
                "Internal Data Engine", "Interactive Design Editor", "B",
                "IDE stands for Integrated Development Environment, a software application providing comprehensive facilities for software development.",
                "Development Tools") >>,
         Medium |-> <<
            BankQuestion("What is the time complexity of binary search?",
                "O(n)", "O(log n)", "O(n^2)", "O(1)", "B",
                "Binary search has O(log n) time complexity because it eliminates half of the remaining elements with each comparison.",
                "Algorithm Analysis"),
            BankQuestion("What is recursion?",
                "A type of loop", "A function calling itself",
                "An error handling technique", "A data structure", "B",
                "Recursion is a programming technique where a function calls itself to solve a smaller instance of the same problem.",
                "Programming Techniques"),
            BankQuestion("What is object-oriented programming?",
                "Programming with objects and classes",
                "Programming only with functions",
                "A debugging technique", "A type of database", "A",
                "Object-oriented programming is a programming paradigm based on the concept of objects, which contain data and code.",
                "Programming Paradigms") >>])
    @@
    ("Machine Learning" :>
        [Easy |-> <<
            BankQuestion("What is supervised learning?",
                "Learning without any data",
                "Learning with labeled training data",
                "Learning only from images",
                "Learning without algorithms", "B",
                "Supervised learning uses labeled training data to learn a mapping from inputs to outputs.",
                "ML Fundamentals"),
            BankQuestion("What does AI stand for?",
                "Automated Intelligence", "Artificial Intelligence",
                "Advanced Integration", "Algorithmic Implementation", "B",
                "AI stands for Artificial Intelligence, which refers to the simulation of human intelligence in machines.",
                "AI Basics") >>,
         Medium |-> <<
            BankQuestion("What is overfitting in machine learning?",
                "When a model learns training data too well, including noise",
                "When a model has too few parameters",
                "When a model trains too slowly",
                "When a model uses too little data", "A",
                "Overfitting occurs when a model learns the training data too well, including its noise and outliers, leading to poor generalization.",
                "Model Performance"),
            BankQuestion("What is a neural network?",
                "A computer network", "A biological nervous system",
                "A computational model inspired by biological neural networks",
                "A type of database", "C",
                "A neural network is a computational model inspired by biological neural networks that process information using interconnected nodes.",
                "Deep Learning") >>])
    @@
    ("Mobile App Development" :>
        [Easy |-> <<
            BankQuestion("What is Android Studio?",
                "A music editing app",
                "An integrated development environment for Android",
                "A mobile game", "A web browser", "B",
                "Android Studio is the official IDE for Android application development.",
                "Development Tools"),
            BankQuestion("Which programming language is primarily used for iOS development?",
                "Java", "Python", "Swift", "C++", "C",
                "Swift is Apple's modern programming language designed for iOS, macOS, and other Apple platforms.",
                "iOS Development") >>,
         Medium |-> <<
            BankQuestion("What is React Native?",
                "A web framework",
                "A cross-platform mobile development framework",
                "A database system", "A testing tool", "B",
                "React Native is a framework that allows developers to build mobile applications for both iOS and Android using JavaScript and React.",
                "Cross-platform Development"),
            BankQuestion("What is the purpose of an Android manifest file?",
                "Store user preferences",
                "Define app components and permissions",
                "Handle network requests", "Manage app themes", "B",
                "The Android manifest file provides essential information about the app including its components, permissions, and capabilities.",
                "Android Architecture") >>])

\* _create_generic_questions: count copies of one templated question
_create_generic_questions(subject, difficulty, count) ==
    [i \in 1..count |->
        [question |-> "What is a fundamental concept in " \o subject \o "?",
         options |-> PyDict(
            [A |-> "Basic " \o Lower(subject) \o " principle A",
             B |-> "Core " \o Lower(subject) \o " concept",
             C |-> "Advanced " \o Lower(subject) \o " theory",
             D |-> "Specialized " \o Lower(subject) \o " application"]),
         correct_answer |-> "B",
         explanation |-> "This question tests understanding of core "
                         \o Lower(subject) \o " concepts at "
                         \o Lower(difficulty) \o " level.",
         topic |-> subject \o " Fundamentals"]]

\* the question the padding loop appends when the list holds k - 1 questions
AdditionalQuestion(subject, difficulty, k) ==
    [id |-> k,
     question |-> "Advanced " \o Lower(subject) \o " concept question " \o ToString(k),
     options |-> PyDict(
        [A |-> "First approach to " \o Lower(subject),
         B |-> "Correct approach to " \o Lower(subject),
         C |-> "Alternative approach to " \o Lower(subject),
         D |-> "Outdated approach to " \o Lower(subject)]),
     correct_answer |-> "B",
     explanation |-> "This represents current best practices in "
                     \o Lower(subject) \o " at " \o Lower(difficulty) \o " level.",
     topic |-> subject \o " Advanced Concepts"]

\* the while loop: append until the list holds num_questions questions
RECURSIVE PadQuestions(_, _, _, _)
PadQuestions(selected, subject, difficulty, num_questions) ==
    IF Len(selected) < num_questions
    THEN PadQuestions(
            Append(selected, AdditionalQuestion(subject, difficulty, Len(selected) + 1)),
            subject, difficulty, num_questions)
    ELSE selected

\* _generate_enhanced_quiz: the static fallback quiz
_generate_enhanced_quiz(subject, difficulty, num_questions) ==
    LET available_questions ==
            IF /\ subject \in DOMAIN enhanced_questions
               /\ difficulty \in DOMAIN enhanced_questions[subject]
            THEN enhanced_questions[subject][difficulty]
            ELSE _create_generic_questions(subject, difficulty, num_questions)
        question_count == Min(num_questions, Len(available_questions))
        first == [i \in 1..question_count |->
                    ("id" :> i) @@ available_questions[i]]
        selected_questions == PadQuestions(first, subject, difficulty, num_questions)
    IN  [subject |-> subject,
         difficulty |-> difficulty,
         total_questions |-> Len(selected_questions),
         questions |-> selected_questions]

----
\* services/ai_service.py: parsing and validating the model's response.

\* A response text is a sequence of tokens: "{" and "}" are the braces that
\* str.find and str.rfind look for, "J" is the member list of a JSON object
\* (what json.loads decodes into the payload), "x" is any other text.
Tokens == {"{", "}", "J", "x"}

\* str.find(ch): the 0-based index of the first occurrence, or -1
Find(text, ch) ==
    IF \E i \in 1..Len(text) : text[i] = ch
    THEN (CHOOSE i \in 1..Len(text) :
            /\ text[i] = ch
            /\ \A j \in 1..(i - 1) : text[j] # ch) - 1
    ELSE -1

\* str.rfind(ch): the 0-based index of the last occurrence, or -1
RFind(text, ch) ==
    IF \E i \in 1..Len(text) : text[i] = ch
    THEN (CHOOSE i \in 1..Len(text) :
            /\ text[i] = ch
            /\ \A j \in (i + 1)..Len(text) : text[j] # ch) - 1
    ELSE -1

\* text[start:end] for 0 <= start <= end
Slice(text, start, end) == SubSeq(text, start + 1, Min(end, Len(text)))

\* json.loads: ok and the decoded dict, or not ok (it raised)
JsonLoads(json_str, payload) ==
    IF json_str = <<"{", "J", "}">> THEN [ok |-> TRUE, value |-> payload]
    ELSE IF json_str = <<"{", "}">> THEN [ok |-> TRUE, value |-> <<>>]
    ELSE [ok |-> FALSE, value |-> <<>>]

required_fields == {"subject", "difficulty", "total_questions", "questions"}
required_q_fields == {"id", "question", "options", "correct_answer", "explanation", "topic"}

\* ValidQuestion without the check of the number of options
ValidQuestion_NoCount(question) ==
    /\ \A field \in required_q_fields : field \in DOMAIN question
    /\ IsInstanceDict(question["options"])
    /\ PyIn(question["correct_answer"], question["options"])

\* the checks of the per-question loop body
ValidQuestion(question) ==
    /\ \A field \in required_q_fields : field \in DOMAIN question
    /\ IsInstanceDict(question["options"])
    /\ PyLen(question["options"]) = 4
    /\ PyIn(question["correct_answer"], question["options"])

\* _validate_quiz_structure without the check of the list's length
_validate_quiz_structure_NoLength(quiz_data, expected_questions) ==
    /\ \A field \in required_fields : field \in DOMAIN quiz_data
    /\ quiz_data["total_questions"] = expected_questions
    /\ \A i \in 1..Len(quiz_data["questions"]) :
            ValidQuestion(quiz_data["questions"][i])

_validate_quiz_structure(quiz_data, expected_questions) ==
    /\ \A field \in required_fields : field \in DOMAIN quiz_data
    /\ quiz_data["total_questions"] = expected_questions
    /\ Len(quiz_data["questions"]) = expected_questions
    /\ \A i \in 1..Len(quiz_data["questions"]) :
            ValidQuestion(quiz_data["questions"][i])

\* _parse_generated_quiz: the parsed quiz, or the fallback on any exception.
\* path names the branch taken.
\* A variant that repairs an unparsable span and parses a second time.
_parse_generated_quiz_Repaired(generated_text, payload, subject, difficulty, num_questions) ==
    LET start_idx == Find(generated_text, "{")
        end_idx == RFind(generated_text, "}") + 1
        json_str == Slice(generated_text, start_idx, end_idx)
        loaded == JsonLoads(json_str, payload)
        repaired == JsonLoads(<<"{", "}">>, payload)
        fallback == _generate_enhanced_quiz(subject, difficulty, num_questions)
    IN  IF start_idx = -1
        THEN [path |-> "no_json", value |-> fallback]
        ELSE IF end_idx <= start_idx
        THEN [path |-> "invalid_json_structure", value |-> fallback]
        ELSE IF ~loaded.ok
        THEN [path |-> "repaired_json", value |-> repaired.value]
        ELSE IF _validate_quiz_structure(loaded.value, num_questions)
        THEN [path |-> "valid_quiz", value |-> loaded.value]
        ELSE [path |-> "invalid_quiz", value |-> fallback]

_parse_generated_quiz(generated_text, payload, subject, difficulty, num_questions) ==
    LET start_idx == Find(generated_text, "{")
        end_idx == RFind(generated_text, "}") + 1
        json_str == Slice(generated_text, start_idx, end_idx)
        loaded == JsonLoads(json_str, payload)
        fallback == _generate_enhanced_quiz(subject, difficulty, num_questions)
    IN  IF start_idx = -1
        THEN [path |-> "no_json", value |-> fallback]
        ELSE IF end_idx <= start_idx
        THEN [path |-> "invalid_json_structure", value |-> fallback]
        ELSE IF ~loaded.ok
        THEN [path |-> "unparsable_json", value |-> fallback]
        ELSE IF _validate_quiz_structure(loaded.value, num_questions)
        THEN [path |-> "valid_quiz", value |-> loaded.value]
        ELSE [path |-> "invalid_quiz", value |-> fallback]

\* The number of json.loads calls that _parse_generated_quiz makes on each of
\* its paths: none when the text holds no span from a "{" to a later "}",
\* one otherwise; the except clause returns the static quiz without a
\* second call.
json_loads_calls(path) ==
    IF path \in {"no_json", "invalid_json_structure"} THEN 0 ELSE 1

\* The outcomes of one HTTP call: it raises (network error, timeout), it
\* answers with a status other than 200, it answers 200 with a body that
\* lacks the expected key (KeyError or a JSON error), or it answers 200
\* with the expected body.
HttpOutcomes == {"raises", "non200", "bad_body", "ok"}

\* generate_quiz without the inner try/except: an exception of the token
\* call reaches the outer handler, which raises
generate_quiz_Uncaught(env, subject, difficulty, num_questions) ==
    LET fallback == _generate_enhanced_quiz(subject, difficulty, num_questions)
        parsed == _parse_generated_quiz(env.generated_text, env.payload,
                                        subject, difficulty, num_questions)
    IN  IF ~env.requests_ok
        THEN [raised |-> TRUE, path |-> "import_error", value |-> <<>>]
        ELSE IF ~env.credentials
        THEN [raised |-> FALSE, path |-> "no_credentials", value |-> fallback]
        ELSE IF env.token \in {"raises", "bad_body"}
        THEN [raised |-> TRUE, path |-> "token_" \o env.token, value |-> <<>>]
        ELSE IF env.token # "ok"
        THEN [raised |-> FALSE, path |-> "token_" \o env.token, value |-> fallback]
        ELSE IF env.generation # "ok"
        THEN [raised |-> FALSE, path |-> "generation_" \o env.generation, value |-> fallback]
        ELSE [raised |-> FALSE, path |-> parsed.path, value |-> parsed.value]

\* generate_quiz.  env is the environment of the call: whether the requests
\* module imports, whether both credentials are set, the outcome of the
\* token call and of the generation call, and the text the model generated.
\* The result records whether the call raised, the branch taken and the
\* returned quiz.
generate_quiz(env, subject, difficulty, num_questions) ==
    LET fallback == _generate_enhanced_quiz(subject, difficulty, num_questions)
        parsed == _parse_generated_quiz(env.generated_text, env.payload,
                                        subject, difficulty, num_questions)
    IN  IF ~env.requests_ok
        THEN [raised |-> TRUE, path |-> "import_error", value |-> <<>>]
        ELSE IF ~env.credentials
        THEN [raised |-> FALSE, path |-> "no_credentials", value |-> fallback]
        ELSE IF env.token # "ok"
        THEN [raised |-> FALSE, path |-> "token_" \o env.token, value |-> fallback]
        ELSE IF env.generation # "ok"
        THEN [raised |-> FALSE, path |-> "generation_" \o env.generation, value |-> fallback]
        ELSE [raised |-> FALSE, path |-> parsed.path, value |-> parsed.value]

----
\* services/ai_service.py: scoring.

\* dict.get(key, default)
Get(d, key, default) == IF key \in DOMAIN d THEN d[key] ELSE default

\* str(question['id'])
StrId(question) == ToString(question["id"])

\* score_percentage > threshold
ScoreAbove(score, threshold) == score.num > threshold * score.den

\* score_percentage >= threshold, on the fraction num/den with den > 0
ScoreAtLeast(score, threshold) == score.num >= threshold * score.den

\* the if/elif chain of evaluate_quiz_answers
performance_level(score) ==
    IF ScoreAtLeast(score, 90) THEN "Excellent"
    ELSE IF ScoreAtLeast(score, 80) THEN "Good"
    ELSE IF ScoreAtLeast(score, 70) THEN "Satisfactory"
    ELSE IF ScoreAtLeast(score, 60) THEN "Needs Improvement"
    ELSE "Poor"

feedback(level) ==
    CASE level = "Excellent" -> "Outstanding performance! You have a strong understanding of the subject."
      [] level = "Good" -> "Good job! You understand most concepts well with room for minor improvements."
      [] level = "Satisfactory" -> "Decent performance. Focus on reviewing the topics you missed."
      [] level = "Needs Improvement" -> "You're getting there! Review the material and practice more."
      [] OTHER -> "Consider reviewing the fundamentals and taking practice quizzes."

\* QuestionDetail without the topic
QuestionDetail_NoTopic(question, user_answers) ==
    LET user_answer == Get(user_answers, StrId(question), "")
        correct_answer == question["correct_answer"]
    IN  [question_id |-> question["id"],
         question |-> question["question"],
         user_answer |-> user_answer,
         correct_answer |-> correct_answer,
         is_correct |-> (user_answer = correct_answer),
         explanation |-> question["explanation"]]

\* the record appended to detailed_results for one question
QuestionDetail(question, user_answers) ==
    LET user_answer == Get(user_answers, StrId(question), "")
        correct_answer == question["correct_answer"]
    IN  [question_id |-> question["id"],
         question |-> question["question"],
         user_answer |-> user_answer,
         correct_answer |-> correct_answer,
         is_correct |-> (user_answer = correct_answer),
         explanation |-> question["explanation"],
         topic |-> question["topic"]]

\* evaluate_quiz_answers counting the answered questions as correct
evaluate_quiz_answers_CountAnswered(quiz_data, user_answers) ==
    LET total_questions == Len(quiz_data["questions"])
        detailed_results ==
            [i \in 1..total_questions |->
                QuestionDetail(quiz_data["questions"][i], user_answers)]
        correct_answers ==
            Cardinality({i \in 1..total_questions : detailed_results[i].user_answer # ""})
        score_percentage == [num |-> correct_answers * 100, den |-> total_questions]
        level == performance_level(score_percentage)
    IN  IF total_questions = 0
        THEN [raised |-> TRUE, value |-> <<>>]
        ELSE [raised |-> FALSE,
              value |-> [total_questions |-> total_questions,
                         correct_answers |-> correct_answers,
                         score_percentage |-> score_percentage,
                         performance_level |-> level,
                         feedback |-> feedback(level),
                         detailed_results |-> detailed_results]]

\* evaluate_quiz_answers; it raises ZeroDivisionError on a quiz without
\* questions
evaluate_quiz_answers(quiz_data, user_answers) ==
    LET total_questions == Len(quiz_data["questions"])
        detailed_results ==
            [i \in 1..total_questions |->
                QuestionDetail(quiz_data["questions"][i], user_answers)]
        correct_answers ==
            Cardinality({i \in 1..total_questions : detailed_results[i].is_correct})
        score_percentage == [num |-> correct_answers * 100, den |-> total_questions]
        level == performance_level(score_percentage)
    IN  IF total_questions = 0
        THEN [raised |-> TRUE, value |-> <<>>]
        ELSE [raised |-> FALSE,
              value |-> [total_questions |-> total_questions,
                         correct_answers |-> correct_answers,
                         score_percentage |-> score_percentage,
                         performance_level |-> level,
                         feedback |-> feedback(level),
                         detailed_results |-> detailed_results]]

\* quiz_results[-5:]
LastFive(results_list) ==
    SubSeq(results_list, IF Len(results_list) > 5 THEN Len(results_list) - 4 ELSE 1,
           Len(results_list))

\* one pass of the loop of get_personalized_recommendations raises KeyError:
\* it reads result['score_percentage'], then the detail records of a result
\* below 70 or the subject of a result from 85 on
RaisesKeyError(result) ==
    \/ "score_percentage" \notin DOMAIN result
    \/ /\ ~ScoreAtLeast(result["score_percentage"], 70)
       /\ \/ "detailed_results" \notin DOMAIN result
          \/ \E i \in 1..Len(result["detailed_results"]) :
                LET detail == result["detailed_results"][i]
                IN  \/ "is_correct" \notin DOMAIN detail
                    \/ ~detail["is_correct"] /\ "topic" \notin DOMAIN detail
    \/ /\ ScoreAtLeast(result["score_percentage"], 85)
       /\ "subject" \notin DOMAIN result

\* get_personalized_recommendations.  The first recommendation names up to
\* three of the weak topics, in the order of a Python set: it is kept as
\* the set it draws from and the number it names.
get_personalized_recommendations(results_list) ==
    LET last == LastFive(results_list)
        weak_topics ==
            UNION {{last[r]["detailed_results"][i]["topic"] :
                        i \in {j \in 1..Len(last[r]["detailed_results"]) :
                                ~last[r]["detailed_results"][j]["is_correct"]}} :
                   r \in {q \in 1..Len(last) :
                            ~ScoreAtLeast(last[q]["score_percentage"], 70)}}
        strong_subjects ==
            {last[r]["subject"] :
                r \in {q \in 1..Len(last) :
                        ScoreAtLeast(last[q]["score_percentage"], 85)}}
        recommendations ==
            (IF weak_topics # {}
             THEN <<[text |-> "Focus on improving: ",
                     among |-> weak_topics,
                     names |-> Min(3, Cardinality(weak_topics))]>>
             ELSE <<>>)
            \o (IF strong_subjects # {}
                THEN <<[text |-> "You're excelling in. Try advanced topics!",
                        subjects |-> strong_subjects]>>
                ELSE <<>>)
            \o <<[text |-> "Take quizzes regularly to track your progress"],
                 [text |-> "Review explanations for incorrect answers"],
                 [text |-> "Try different difficulty levels to challenge yourself"]>>
    IN  IF results_list = <<>>
        THEN [raised |-> FALSE,
              value |-> <<[text |-> "Take your first quiz to get personalized recommendations!"]>>]
        ELSE IF \E r \in 1..Len(last) : RaisesKeyError(last[r])
        THEN [raised |-> TRUE, value |-> <<>>]
        ELSE [raised |-> FALSE,
              value |-> SubSeq(recommendations, 1, Min(5, Len(recommendations)))]

----
\* Python floats.  The scores, their sums and their means are IEEE doubles
\* between 2^-7 and 2^12, or 0: each is a multiple of 2^-60 and is kept as
\* the three digits <<high, middle, low>>, in base 2^24, of that multiple.
\* An operation computes its exact result and rounds it to 53 significant
\* bits, to nearest and to even on a tie.

Limb == 2^24

\* float(n) for an int n
FxFromInt(n) == <<n * 2^12, 0, 0>>

\* the exact sum, difference (of a >= b), product with a small int and
\* quotient with remainder by a small int
FxAdd(a, b) ==
    LET low == a[3] + b[3]
        mid == a[2] + b[2] + (low \div Limb)
    IN  <<a[1] + b[1] + (mid \div Limb), mid % Limb, low % Limb>>
FxSub(a, b) ==
    LET low == a[3] - b[3]
        mid == a[2] - b[2] - (IF low < 0 THEN 1 ELSE 0)
    IN  <<a[1] - b[1] - (IF mid < 0 THEN 1 ELSE 0), mid % Limb, low % Limb>>
FxMulSmall(a, k) ==
    LET low == a[3] * k
        mid == a[2] * k + (low \div Limb)
    IN  <<a[1] * k + (mid \div Limb), mid % Limb, low % Limb>>
FxDivSmall(a, k) ==
    LET mid == (a[1] % k) * Limb + a[2]
        low == (mid % k) * Limb + a[3]
    IN  [q |-> <<a[1] \div k, mid \div k, low \div k>>, rem |-> low % k]

\* a < b
FxLess(a, b) ==
    \/ a[1] < b[1]
    \/ a[1] = b[1] /\ a[2] < b[2]
    \/ a[1] = b[1] /\ a[2] = b[2] /\ a[3] < b[3]

\* the number of bits of h
BitLen(h) == CHOOSE k \in 0..24 : h < 2^k /\ (k = 0 \/ h >= 2^(k - 1))

\* the double nearest to a, or to a little more than a when sticky: the bits
\* below the 53rd, all of them in the low digit, are rounded away
FxRound(a, sticky) ==
    IF a[1] < 32 THEN a
    ELSE LET p == 2^(BitLen(a[1]) - 5)
             r == a[3] % p
             q == a[3] \div p
             up == \/ r * 2 > p
                   \/ r * 2 = p /\ (sticky \/ q % 2 = 1)
         IN  IF up THEN FxAdd(<<a[1], a[2], q * p>>, <<0, 0, p>>)
             ELSE <<a[1], a[2], q * p>>

\* c / t for ints, x * k and x / k for a float and an int, x + y and x - y
FloatDivInts(c, t) ==
    FxRound(FxDivSmall(FxFromInt(c), t).q, FxDivSmall(FxFromInt(c), t).rem # 0)
FloatMulInt(x, k) == FxRound(FxMulSmall(x, k), FALSE)
FloatDivInt(x, k) == FxRound(FxDivSmall(x, k).q, FxDivSmall(x, k).rem # 0)
FloatAdd(x, y) == FxRound(FxAdd(x, y), FALSE)
FloatSub(x, y) == FxRound(FxSub(x, y), FALSE)

\* (correct_answers / total_questions) * 100 as evaluate_quiz_answers
\* computes it, from the fraction that the model keeps of it
FloatOfScore(score) == FloatMulInt(FloatDivInts(score.num \div 100, score.den), 100)

\* sum(xs): the floats are added from the left
RECURSIVE FloatSum(_)
FloatSum(xs) ==
    IF xs = <<>> THEN FxFromInt(0)
    ELSE FloatAdd(FloatSum(SubSeq(xs, 1, Len(xs) - 1)), xs[Len(xs)])

----
\* page_modules/analytics.py.  A date is the number of its day.

\* sorted(dates, reverse=True)
RECURSIVE SortedReverse(_)
SortedReverse(dates) ==
    IF dates = {} THEN <<>>
    ELSE LET latest == CHOOSE d \in dates : \A e \in dates : e <= d
         IN  <<latest>> \o SortedReverse(dates \ {latest})

\* the for loop of calculate_learning_streak from its i-th date on
RECURSIVE StreakLoop(_, _, _, _)
StreakLoop(unique_dates, i, streak, current_date) ==
    IF i > Len(unique_dates) THEN streak
    ELSE IF \/ unique_dates[i] = current_date
            \/ unique_dates[i] = current_date - (streak + 1)
    THEN StreakLoop(unique_dates, i + 1, streak + 1, unique_dates[i])
    ELSE streak

\* calculate_learning_streak on the dates of the attempts, on the day today
calculate_learning_streak(dates, today) ==
    IF dates = {} THEN 0
    ELSE StreakLoop(SortedReverse(dates), 1, 0, today)

----
\* utils/session_manager.py.

\* "@" in email
Contains(email, ch) == \E i \in 1..Len(email) : email[i] = ch

\* register_user without the check of the username
register_user_NoDuplicateCheck(us, qh, t, username, email, password) ==
    IF Len(username) < 3
    THEN [success |-> FALSE, message |-> "Username must be at least 3 characters long",
          users |-> us, quiz_history |-> qh]
    ELSE IF Len(password) < 6
    THEN [success |-> FALSE, message |-> "Password must be at least 6 characters long",
          users |-> us, quiz_history |-> qh]
    ELSE IF ~Contains(email, "@")
    THEN [success |-> FALSE, message |-> "Please enter a valid email address",
          users |-> us, quiz_history |-> qh]
    ELSE [success |-> TRUE, message |-> "Registration successful!",
          users |-> (username :> [email |-> email, password |-> password,
                                  created_at |-> t]) @@ us,
          quiz_history |-> (username :> <<>>) @@ qh]

\* register_user with a password limit of 5
register_user_ShortPassword(us, qh, t, username, email, password) ==
    IF username \in DOMAIN us
    THEN [success |-> FALSE, message |-> "Username already exists",
          users |-> us, quiz_history |-> qh]
    ELSE IF Len(username) < 3
    THEN [success |-> FALSE, message |-> "Username must be at least 3 characters long",
          users |-> us, quiz_history |-> qh]
    ELSE IF Len(password) < 5
    THEN [success |-> FALSE, message |-> "Password must be at least 6 characters long",
          users |-> us, quiz_history |-> qh]
    ELSE IF ~Contains(email, "@")
    THEN [success |-> FALSE, message |-> "Please enter a valid email address",
          users |-> us, quiz_history |-> qh]
    ELSE [success |-> TRUE, message |-> "Registration successful!",
          users |-> (username :> [email |-> email, password |-> password,
                                  created_at |-> t]) @@ us,
          quiz_history |-> (username :> <<>>) @@ qh]

\* register_user on the users map us and the history map qh at time t: the
\* returned pair and the two maps after the call
register_user(us, qh, t, username, email, password) ==
    IF username \in DOMAIN us
    THEN [success |-> FALSE, message |-> "Username already exists",
          users |-> us, quiz_history |-> qh]
    ELSE IF Len(username) < 3
    THEN [success |-> FALSE, message |-> "Username must be at least 3 characters long",
          users |-> us, quiz_history |-> qh]
    ELSE IF Len(password) < 6
    THEN [success |-> FALSE, message |-> "Password must be at least 6 characters long",
          users |-> us, quiz_history |-> qh]
    ELSE IF ~Contains(email, "@")
    THEN [success |-> FALSE, message |-> "Please enter a valid email address",
          users |-> us, quiz_history |-> qh]
    ELSE [success |-> TRUE, message |-> "Registration successful!",
          users |-> (username :> [email |-> email, password |-> password,
                                  created_at |-> t]) @@ us,
          quiz_history |-> (username :> <<>>) @@ qh]

\* login_user without the check of the password
login_user_AnyPassword(us, username, password) ==
    IF username \notin DOMAIN us
    THEN [success |-> FALSE, message |-> "Username not found"]
    ELSE [success |-> TRUE, message |-> "Login successful!"]

\* login_user: the returned pair; on success the caller's state gets
\* authenticated = True and current_user = username
login_user(us, username, password) ==
    IF username \notin DOMAIN us
    THEN [success |-> FALSE, message |-> "Username not found"]
    ELSE IF us[username].password # password
    THEN [success |-> FALSE, message |-> "Incorrect password"]
    ELSE [success |-> TRUE, message |-> "Login successful!"]

\* get_current_user
get_current_user(auth, cu) == IF auth THEN cu ELSE None

\* save_quiz_result replacing the history by the new record
save_quiz_result_Replace(auth, cu, qh, t, quiz_data, results) ==
    IF ~auth THEN qh
    ELSE
        LET username == TheValue(get_current_user(auth, cu))
            quiz_record ==
                [timestamp |-> t,
                 subject |-> quiz_data["subject"],
                 difficulty |-> quiz_data["difficulty"],
                 total_questions |-> results.total_questions,
                 correct_answers |-> results.correct_answers,
                 score |-> results.score_percentage,
                 performance_level |-> results.performance_level,
                 detailed_results |-> results.detailed_results]
        IN  (username :> <<quiz_record>>) @@ qh

\* save_quiz_result: the history map after the call
save_quiz_result(auth, cu, qh, t, quiz_data, results) ==
    IF ~auth THEN qh
    ELSE
        LET username == TheValue(get_current_user(auth, cu))
            quiz_record ==
                [timestamp |-> t,
                 subject |-> quiz_data["subject"],
                 difficulty |-> quiz_data["difficulty"],
                 total_questions |-> results.total_questions,
                 correct_answers |-> results.correct_answers,
                 score |-> results.score_percentage,
                 performance_level |-> results.performance_level,
                 detailed_results |-> results.detailed_results]
            old == IF username \in DOMAIN qh THEN qh[username] ELSE <<>>
        IN  (username :> Append(old, quiz_record)) @@ qh

\* the history variable after a call of save_quiz_result: the call is logged
\* under the user who is logged in, if one is
LogAttempt(log, auth, cu, quiz_data, results) ==
    IF ~auth THEN log
    ELSE LET username == TheValue(cu)
         IN  (username :> Append(Get(log, username, <<>>),
                                 [subject |-> quiz_data["subject"],
                                  difficulty |-> quiz_data["difficulty"],
                                  results |-> results])) @@ log

\* get_user_quiz_history returning all the attempts of the session
get_user_quiz_history_AllUsers(auth, cu, qh) ==
    IF ~auth THEN <<>>
    ELSE LET RECURSIVE Concat(_)
             Concat(S) == IF S = {} THEN <<>>
                          ELSE LET u == CHOOSE x \in S : TRUE
                               IN  qh[u] \o Concat(S \ {u})
         IN  Concat(DOMAIN qh)

\* get_user_quiz_history
get_user_quiz_history(auth, cu, qh) ==
    IF ~auth THEN <<>>
    ELSE Get(qh, TheValue(get_current_user(auth, cu)), <<>>)

\* the trend of get_user_stats, on the floats of the scores: early_avg - 5
\* is negative, and below every mean, when early_avg is below 5
improvement_trend(scores) ==
    IF Len(scores) >= 6
    THEN LET early_avg == FloatDivInt(FloatSum(SubSeq(scores, 1, 3)), 3)
             recent_avg == FloatDivInt(FloatSum(SubSeq(scores, Len(scores) - 2,
                                                       Len(scores))), 3)
         IN  IF FxLess(FloatAdd(early_avg, FxFromInt(5)), recent_avg)
             THEN "Improving"
             ELSE IF /\ ~FxLess(early_avg, FxFromInt(5))
                     /\ FxLess(recent_avg, FloatSub(early_avg, FxFromInt(5)))
             THEN "Declining"
             ELSE "Stable"
    ELSE "Not enough data"

\* max(scores)
RECURSIVE FloatMax(_)
FloatMax(xs) ==
    IF Len(xs) = 1 THEN xs[1]
    ELSE LET rest == FloatMax(SubSeq(xs, 2, Len(xs)))
         IN  IF FxLess(xs[1], rest) THEN rest ELSE xs[1]

\* get_user_stats.  average_score and best_score are the floats that the
\* code then rounds to one decimal; favorite_subject is the set of the most
\* frequent subjects, of which max() returns the first in the order of a
\* Python set.
get_user_stats(auth, cu, qh) ==
    LET history == get_user_quiz_history(auth, cu, qh)
        total_quizzes == Len(history)
        scores == [i \in 1..total_quizzes |-> FloatOfScore(history[i].score)]
        count(subject) ==
            Cardinality({i \in 1..total_quizzes : history[i].subject = subject})
        subjects == {history[i].subject : i \in 1..total_quizzes}
    IN  IF history = <<>>
        THEN [total_quizzes |-> 0,
              average_score |-> FxFromInt(0),
              best_score |-> FxFromInt(0),
              favorite_subject |-> {"None"},
              improvement_trend |-> "No data"]
        ELSE [total_quizzes |-> total_quizzes,
              average_score |-> FloatDivInt(FloatSum(scores), total_quizzes),
              best_score |-> FloatMax(scores),
              favorite_subject |->
                {subject \in subjects :
                    \A other \in subjects : count(other) <= count(subject)},
              improvement_trend |-> improvement_trend(scores)]

----
\* The inputs of the model.

Subjects == {"Machine Learning", "History"}
Difficulties == {"Easy", "Hard"}

\* sequences over S of length at most n
SeqsUpTo(S, n) == UNION {[1..k -> S] : k \in 0..n}

\* Response texts.  The member list of an object stands between braces, so
\* that the braces inside it lie inside the span find and rfind select.
Texts ==
    {t \in SeqsUpTo(Tokens, MaxTextLen) :
        \A i \in 1..Len(t) :
            t[i] = "J" => /\ \E a \in 1..(i - 1) : t[a] = "{"
                          /\ \E b \in (i + 1)..Len(t) : t[b] = "}"}

\* a question as the model may write it
ModelQuestion(id, labels, correct) ==
    [id |-> id,
     question |-> "Model question " \o ToString(id),
     options |-> PyDict([l \in labels |-> "Option " \o l]),
     correct_answer |-> correct,
     explanation |-> "Model explanation " \o correct,
     topic |-> "Model topic " \o ToString(id)]

\* dict without one key
Without(d, key) == [k \in DOMAIN d \ {key} |-> d[k]]

\* questions that pass the validation
WellFormedQuestions ==
    {ModelQuestion(1, {"A", "B", "C", "D"}, "B"),
     ModelQuestion(2, {"A", "B", "C", "D"}, "A"),
     ModelQuestion(1, {"A", "B", "C", "D"}, "A"),
     ModelQuestion(3, {"", "B", "C", "D"}, "")}

\* questions that do not: a missing field, options that are a list, three
\* options, five options, a correct label that is no option
IllFormedQuestions ==
    {Without(ModelQuestion(2, {"A", "B", "C", "D"}, "B"), "topic"),
     [ModelQuestion(2, {"A", "B", "C", "D"}, "B")
        EXCEPT !["options"] = PyList(<<"A", "B", "C", "D">>)],
     ModelQuestion(2, {"A", "B", "C"}, "A"),
     ModelQuestion(2, {"A", "B", "C", "D", "E"}, "E"),
     ModelQuestion(2, {"A", "B", "C", "D"}, "E")}

ModelQuestions == WellFormedQuestions \cup IllFormedQuestions

\* the question lists of the model: at most one question is ill-formed
ModelQuestionLists ==
    {qs \in SeqsUpTo(ModelQuestions, MaxQuestions) :
        Cardinality({i \in 1..Len(qs) : qs[i] \in IllFormedQuestions}) <= 1}

\* the dicts the model's JSON may decode to, for a request: the count it
\* states is the length of its list or not
Payloads(subject, difficulty) ==
    LET full == {[subject |-> subject, difficulty |-> difficulty,
                  total_questions |-> t, questions |-> qs] :
                    t \in 0..MaxQuestions, qs \in ModelQuestionLists}
    IN  {p \in full : p.total_questions \in {Len(p.questions), MaxQuestions}}
        \cup {Without([subject |-> subject, difficulty |-> difficulty,
                            total_questions |-> 0, questions |-> <<>>],
                           "total_questions")}

\* the environment in which every call succeeds and the model says nothing
QuietEnv ==
    [requests_ok |-> TRUE, credentials |-> TRUE, token |-> "ok",
     generation |-> "ok", generated_text |-> <<>>, payload |-> <<>>]

\* the text decodes to the payload
Decodes(text) ==
    /\ Find(text, "{") # -1
    /\ Slice(text, Find(text, "{"), RFind(text, "}") + 1) = <<"{", "J", "}">>

\* the environments of a call
Envs(subject, difficulty) ==
    {[QuietEnv EXCEPT !.requests_ok = FALSE]}
    \cup {[QuietEnv EXCEPT !.credentials = FALSE]}
    \cup {[QuietEnv EXCEPT !.token = o] : o \in HttpOutcomes \ {"ok"}}
    \cup {[QuietEnv EXCEPT !.generation = o] : o \in HttpOutcomes \ {"ok"}}
    \cup {[QuietEnv EXCEPT !.generated_text = t] : t \in {u \in Texts : ~Decodes(u)}}
    \cup {[QuietEnv EXCEPT !.generated_text = t, !.payload = p] :
            t \in {u \in Texts : Decodes(u)}, p \in Payloads(subject, difficulty)}

\* what ret keeps of the environment
Observed(env) ==
    [requests_ok |-> env.requests_ok, credentials |-> env.credentials,
     token |-> env.token, generation |-> env.generation,
     generated_text |-> env.generated_text]

\* the labels a user may hold for a question
AnswerLabels == {"A", "B", ""}

\* the answer maps over a set of keys
AnswerMaps(keys) == UNION {[S -> AnswerLabels] : S \in SUBSET keys}

\* the answer keys of a quiz
AnswerKeys(quiz_data) ==
    {StrId(quiz_data["questions"][i]) : i \in 1..Len(quiz_data["questions"])}

----
\* The state after construction: main() and SessionManager.__init__ have
\* filled the session state and the login page is shown.

Idle == [op |-> "none"]

Init ==
    /\ authenticated = FALSE
    /\ current_user = None
    /\ users = <<>>
    /\ quiz_history = <<>>
    /\ current_page = "login"
    /\ requested_page = None
    /\ current_quiz = None
    /\ quiz_answers = <<>>
    /\ quiz_submitted = FALSE
    /\ quiz_results = None
    /\ shown = "login"
    /\ now = 0
    /\ nav_selector = None
    /\ saved_attempts = <<>>
    /\ quiz_owner = None
    /\ ret = Idle

----
\* The inputs of the application.

\* what the user may type as a username, a password and an email
Usernames == {"", "ab", "bob", "demo"}
Passwords == {"", "12345", "secret", "demo123"}
Emails == {<<>>, <<"b", "o", "b">>, <<"b", "@", "x">>}

\* what the user types on the forms while quizzes are taken too: the
\* username, email, password and confirmation of a registration, the
\* username and password of a login
AppRegistrations ==
    {<<"bob", <<"b", "@", "x">>, "secret", "secret">>,
     <<"bob", <<"b", "@", "x">>, "12345", "12345">>}
AppLogins == {<<"bob", "secret">>, <<"bob", "12345">>}
DemoEmail == <<"d", "e", "m", "o", "@", "e", "x", "a", "m", "p", "l", "e", ".", "c", "o", "m">>

\* the positions of the slider, from 3 up
SliderValues == 3..Min(10, MaxQuestions)

\* the subjects and difficulties picked on the setup screen
AppSubjects == {"Programming Fundamentals"}
AppDifficulties == {"Medium"}

\* a quiz as the model may write it: n questions with the ids 1..n
ModelQuiz(subject, difficulty, n) ==
    [subject |-> subject, difficulty |-> difficulty, total_questions |-> n,
     questions |-> [i \in 1..n |->
        ModelQuestion(i, {"A", "B", "C", "D"}, IF i % 2 = 1 THEN "B" ELSE "A")]]

\* the same with the id 1 on its last question too
ModelQuizRepeatedId(subject, difficulty, n) ==
    [ModelQuiz(subject, difficulty, n) EXCEPT
        !["questions"][n] = ModelQuestion(1, {"A", "B", "C", "D"}, "A")]

\* the environments of a call from the setup screen
AppEnvs(subject, difficulty, n) ==
    {[QuietEnv EXCEPT !.requests_ok = FALSE],
     [QuietEnv EXCEPT !.credentials = FALSE],
     [QuietEnv EXCEPT !.generated_text = <<"x", "{", "J", "}">>,
                      !.payload = ModelQuiz(subject, difficulty, n)],
     [QuietEnv EXCEPT !.generated_text = <<"{", "J", "}">>,
                      !.payload = ModelQuizRepeatedId(subject, difficulty, n)]}

\* the labels a user may pick on the form
FormLabels == {"B"}

----
\* The AI service called on its own: generate_quiz on every request and in
\* every environment, then evaluate_quiz_answers on the returned quiz with
\* every answer map.

CallGenerateQuiz ==
    /\ ret.op = "none"
    /\ \E subject \in Subjects, difficulty \in Difficulties,
          num_questions \in 0..MaxQuestions :
        \E env \in Envs(subject, difficulty) :
            ret' = [op |-> "generate_quiz",
                    subject |-> subject,
                    difficulty |-> difficulty,
                    num_questions |-> num_questions,
                    env |-> Observed(env),
                    result |-> generate_quiz(env, subject, difficulty, num_questions)]
    /\ UNCHANGED <<session, navigation, quizflow, now>>
    /\ UNCHANGED <<nav_selector, saved_attempts, quiz_owner>>

CallEvaluateQuizAnswers ==
    /\ ret.op = "generate_quiz"
    /\ ~ret.result.raised
    /\ \E user_answers \in AnswerMaps(AnswerKeys(ret.result.value)) :
        ret' = [op |-> "evaluate_quiz_answers",
                quiz_data |-> ret.result.value,
                user_answers |-> user_answers,
                result |-> evaluate_quiz_answers(ret.result.value, user_answers)]
    /\ UNCHANGED <<session, navigation, quizflow, now>>
    /\ UNCHANGED <<nav_selector, saved_attempts, quiz_owner>>

ServiceNext == CallGenerateQuiz \/ CallEvaluateQuizAnswers

SpecService == Init /\ [][ServiceNext]_vars

----
\* The scoring on a long quiz: the fallback quiz of ScoreQuestions questions
\* and every way to answer it with a right label, a wrong label or nothing.

ScoreGenerateQuiz ==
    /\ ret.op = "none"
    /\ \E subject \in {"Machine Learning"}, difficulty \in {"Easy"} :
        LET env == [QuietEnv EXCEPT !.credentials = FALSE]
        IN  ret' = [op |-> "generate_quiz",
                    subject |-> subject,
                    difficulty |-> difficulty,
                    num_questions |-> ScoreQuestions,
                    env |-> Observed(env),
                    result |-> generate_quiz(env, subject, difficulty, ScoreQuestions)]
    /\ UNCHANGED <<session, navigation, quizflow, now>>
    /\ UNCHANGED <<nav_selector, saved_attempts, quiz_owner>>

ScoreEvaluateQuizAnswers ==
    /\ ret.op = "generate_quiz"
    /\ ~ret.result.raised
    /\ \E user_answers \in
            UNION {[S -> {"A", "B"}] : S \in SUBSET AnswerKeys(ret.result.value)} :
        ret' = [op |-> "evaluate_quiz_answers",
                quiz_data |-> ret.result.value,
                user_answers |-> user_answers,
                result |-> evaluate_quiz_answers(ret.result.value, user_answers)]
    /\ UNCHANGED <<session, navigation, quizflow, now>>
    /\ UNCHANGED <<nav_selector, saved_attempts, quiz_owner>>

ScoreNext == ScoreGenerateQuiz \/ ScoreEvaluateQuizAnswers

SpecScore == Init /\ [][ScoreNext]_vars

----
\* The application: one action per script run.  A run is started by one
\* event of the user (a click on a widget of the screen shown) or by
\* st.rerun(), after which shown is "rerun" until the next run has rendered.

Pages == {"Dashboard", "Take Quiz", "Analytics", "Profile"}

\* app.py, show_authenticated_app: the page of this run, given the sidebar
\* button clicked in it (None when none was)
DefaultedPage == IF current_page = "login" THEN "Dashboard" ELSE current_page
\* the page of the run if a request came before the sidebar button
PageOfRun_RequestFirst(selected_page) ==
    IF ~IsNone(requested_page) THEN TheValue(requested_page)
    ELSE IF ~IsNone(selected_page) THEN TheValue(selected_page)
    ELSE DefaultedPage
\* the page of the run: the button, else the request, else the current page
PageOfRun(selected_page) ==
    IF ~IsNone(selected_page) THEN TheValue(selected_page)
    ELSE IF ~IsNone(requested_page) THEN TheValue(requested_page)
    ELSE DefaultedPage
\* the page rendered whatever the page name
Rendered_NoFallback(page) == page

\* the page rendered for a page name
Rendered(page) == IF page \in Pages THEN page ELSE "Dashboard"

\* show_authenticated_app up to the rendering of the page; ret keeps what
\* the run found in the session state and the sidebar button clicked
RenderApp(selected_page) ==
    /\ requested_page' = None
    /\ current_page' = Rendered(PageOfRun(selected_page))
    /\ shown' = Rendered(PageOfRun(selected_page))
    /\ ret' = [op |-> "show_authenticated_app",
               current_page |-> current_page,
               requested_page |-> requested_page,
               selected_page |-> selected_page]

\* the run that st.rerun() starts
Rerun ==
    /\ shown = "rerun"
    /\ IF authenticated
       THEN RenderApp(None)
       ELSE /\ shown' = "login"
            /\ ret' = Idle
            /\ UNCHANGED <<current_page, requested_page>>
    /\ UNCHANGED <<session, quizflow, now>>
    /\ UNCHANGED <<nav_selector, saved_attempts, quiz_owner>>

\* a sidebar button
Navigate(page) ==
    /\ authenticated
    /\ shown \in Pages
    /\ RenderApp(Some(page))
    /\ UNCHANGED <<session, quizflow, now>>
    /\ UNCHANGED <<nav_selector, saved_attempts, quiz_owner>>

\* the Logout button: logout() and st.rerun(), before current_page is stored
Logout ==
    /\ authenticated
    /\ shown \in Pages
    /\ authenticated' = FALSE
    /\ current_user' = None
    /\ requested_page' = None
    /\ current_page' = DefaultedPage
    /\ shown' = "rerun"
    /\ ret' = Idle
    /\ UNCHANGED <<users, quiz_history, quizflow, now>>
    /\ UNCHANGED <<nav_selector, saved_attempts, quiz_owner>>

\* login.py, show_registration_form: the Sign Up button
Register(username, email, password, confirm_password) ==
    /\ ~authenticated
    /\ shown = "login"
    /\ IF username = "" \/ email = <<>> \/ password = "" \/ confirm_password = ""
       THEN /\ ret' = [op |-> "registration_form", error |-> "Please fill in all fields"]
            /\ UNCHANGED <<users, quiz_history>>
       ELSE IF password # confirm_password
       THEN /\ ret' = [op |-> "registration_form", error |-> "Passwords do not match"]
            /\ UNCHANGED <<users, quiz_history>>
       ELSE LET r == register_user(users, quiz_history, now, username, email, password)
            IN  /\ users' = r.users
                /\ quiz_history' = r.quiz_history
                /\ ret' = [op |-> "register_user", username |-> username,
                           email |-> email, password |-> password,
                           result |-> [success |-> r.success, message |-> r.message]]
    /\ UNCHANGED <<authenticated, current_user, navigation, quizflow, now>>
    /\ UNCHANGED <<nav_selector, saved_attempts, quiz_owner>>

\* login.py, show_login_form: the Login button
Login(username, password) ==
    /\ ~authenticated
    /\ shown = "login"
    /\ IF username = "" \/ password = ""
       THEN /\ ret' = [op |-> "login_form", error |-> "Please fill in all fields"]
            /\ UNCHANGED <<authenticated, current_user, shown>>
       ELSE LET r == login_user(users, username, password)
            IN  /\ ret' = [op |-> "login_user", username |-> username,
                           password |-> password, result |-> r]
                /\ IF r.success
                   THEN /\ authenticated' = TRUE
                        /\ current_user' = Some(username)
                        /\ shown' = "rerun"
                   ELSE UNCHANGED <<authenticated, current_user, shown>>
    /\ UNCHANGED <<users, quiz_history, current_page, requested_page, quizflow, now>>
    /\ UNCHANGED <<nav_selector, saved_attempts, quiz_owner>>

\* login.py, show_login_form: the Use Demo Account button
DemoLogin ==
    /\ ~authenticated
    /\ shown = "login"
    /\ LET reg == IF "demo" \notin DOMAIN users
                  THEN register_user(users, quiz_history, now, "demo", DemoEmail, "demo123")
                  ELSE [users |-> users, quiz_history |-> quiz_history]
           r == login_user(reg.users, "demo", "demo123")
       IN  /\ users' = reg.users
           /\ quiz_history' = reg.quiz_history
           /\ ret' = [op |-> "login_user", username |-> "demo",
                      password |-> "demo123", result |-> r]
           /\ IF r.success
              THEN /\ authenticated' = TRUE
                   /\ current_user' = Some("demo")
                   /\ shown' = "rerun"
              ELSE UNCHANGED <<authenticated, current_user, shown>>
    /\ UNCHANGED <<current_page, requested_page, quizflow, now>>
    /\ UNCHANGED <<nav_selector, saved_attempts, quiz_owner>>

\* dashboard.py, show_getting_started: Start Your First Quiz
StartFirstQuiz ==
    /\ authenticated
    /\ shown = "Dashboard"
    /\ get_user_quiz_history(authenticated, current_user, quiz_history) = <<>>
    /\ requested_page' = Some("Take Quiz")
    /\ shown' = "rerun"
    /\ ret' = Idle
    /\ UNCHANGED <<session, current_page, quizflow, now>>
    /\ UNCHANGED <<nav_selector, saved_attempts, quiz_owner>>

\* analytics.py, show_no_data_message: Take Your First Quiz
TakeFirstQuiz ==
    /\ authenticated
    /\ shown = "Analytics"
    /\ get_user_quiz_history(authenticated, current_user, quiz_history) = <<>>
    /\ nav_selector' = Some("Take Quiz")
    /\ shown' = "rerun"
    /\ ret' = [op |-> "show_no_data_message"]
    /\ UNCHANGED <<session, current_page, requested_page, quizflow, now,
                   saved_attempts, quiz_owner>>

\* quiz.py, show_quiz_setup and generate_quiz: the Generate Quiz button, with
\* the subject and difficulty picked and the slider's value
GenerateQuiz(subject, difficulty, num_questions, env) ==
    /\ authenticated
    /\ shown = "Take Quiz"
    /\ IsNone(current_quiz)
    /\ LET r == generate_quiz(env, subject, difficulty, num_questions)
       IN  /\ ret' = [op |-> "generate_quiz", subject |-> subject,
                      difficulty |-> difficulty, num_questions |-> num_questions,
                      env |-> Observed(env), result |-> r]
           /\ IF r.raised
              THEN UNCHANGED <<quizflow, shown, quiz_owner>>
              ELSE /\ current_quiz' = Some(r.value)
                   /\ quiz_answers' = <<>>
                   /\ quiz_submitted' = FALSE
                   /\ quiz_results' = None
                   /\ quiz_owner' = current_user
                   /\ shown' = "rerun"
    /\ UNCHANGED <<session, current_page, requested_page, now>>
    /\ UNCHANGED <<nav_selector, saved_attempts>>

\* the labels offered by the radio buttons of one key
LabelsOfKey(quiz_data, key) ==
    UNION {DOMAIN quiz_data["questions"][i]["options"].value :
            i \in {j \in 1..Len(quiz_data["questions"]) :
                    StrId(quiz_data["questions"][j]) = key}}

\* the key of the last question
LastKey(quiz_data) ==
    IF quiz_data["questions"] = <<>> THEN {}
    ELSE {StrId(quiz_data["questions"][Len(quiz_data["questions"])])}

\* the states of the radio buttons at a click on Submit Quiz: the user has
\* answered every question, or every question but the last; a radio button
\* keeps a label once it has one
Selections(quiz_data, answers) ==
    {sel \in UNION {[S -> FormLabels] :
                    S \in {AnswerKeys(quiz_data),
                           AnswerKeys(quiz_data) \ LastKey(quiz_data)}} :
        /\ DOMAIN answers \subseteq DOMAIN sel
        /\ \A k \in DOMAIN sel : sel[k] \in LabelsOfKey(quiz_data, k)}

\* the loop of show_quiz_questions: every truthy answer is stored
StoreAnswers(answers, sel) ==
    [k \in DOMAIN answers \cup {j \in DOMAIN sel : sel[j] # ""} |->
        IF k \in DOMAIN sel /\ sel[k] # "" THEN sel[k] ELSE answers[k]]

\* A variant whose form is offered again after the quiz was submitted.
SubmitQuizForm_Resubmit(sel) ==
    /\ authenticated
    /\ shown = "Take Quiz"
    /\ ~IsNone(current_quiz)
    /\ Len(get_user_quiz_history(authenticated, current_user, quiz_history)) < MaxHistory
    /\ LET quiz_data == TheValue(current_quiz)
           answers == StoreAnswers(quiz_answers, sel)
           r == evaluate_quiz_answers(quiz_data, answers)
       IN  /\ quiz_answers' = answers
           /\ IF Cardinality(DOMAIN answers) < quiz_data["total_questions"]
              THEN /\ ret' = [op |-> "submit_form",
                              error |-> "Please answer all questions before submitting."]
                   /\ UNCHANGED <<quiz_results, quiz_submitted, quiz_history, shown,
                                   saved_attempts>>
              ELSE IF r.raised
              THEN /\ ret' = [op |-> "submit_quiz", saved |-> FALSE]
                   /\ UNCHANGED <<quiz_results, quiz_submitted, quiz_history, shown,
                                   saved_attempts>>
              ELSE /\ quiz_results' = Some(r.value)
                   /\ quiz_submitted' = TRUE
                   /\ quiz_history' = save_quiz_result(authenticated, current_user,
                                                       quiz_history, now, quiz_data, r.value)
                   /\ saved_attempts' = LogAttempt(saved_attempts, authenticated,
                                                   current_user, quiz_data, r.value)
                   /\ shown' = "rerun"
                   /\ ret' = [op |-> "submit_quiz", saved |-> TRUE]
    /\ UNCHANGED <<authenticated, current_user, users, current_quiz,
                   current_page, requested_page, now>>
    /\ UNCHANGED <<nav_selector, quiz_owner>>

\* quiz.py, show_quiz_questions and submit_quiz: the Submit Quiz button
SubmitQuizForm(sel) ==
    /\ authenticated
    /\ shown = "Take Quiz"
    /\ ~IsNone(current_quiz)
    /\ ~quiz_submitted
    /\ Len(get_user_quiz_history(authenticated, current_user, quiz_history)) < MaxHistory
    /\ LET quiz_data == TheValue(current_quiz)
           answers == StoreAnswers(quiz_answers, sel)
           r == evaluate_quiz_answers(quiz_data, answers)
       IN  /\ quiz_answers' = answers
           /\ IF Cardinality(DOMAIN answers) < quiz_data["total_questions"]
              THEN /\ ret' = [op |-> "submit_form",
                              error |-> "Please answer all questions before submitting."]
                   /\ UNCHANGED <<quiz_results, quiz_submitted, quiz_history, shown,
                                   saved_attempts>>
              ELSE IF r.raised
              THEN /\ ret' = [op |-> "submit_quiz", saved |-> FALSE]
                   /\ UNCHANGED <<quiz_results, quiz_submitted, quiz_history, shown,
                                   saved_attempts>>
              ELSE /\ quiz_results' = Some(r.value)
                   /\ quiz_submitted' = TRUE
                   /\ quiz_history' = save_quiz_result(authenticated, current_user,
                                                       quiz_history, now, quiz_data, r.value)
                   /\ saved_attempts' = LogAttempt(saved_attempts, authenticated,
                                                   current_user, quiz_data, r.value)
                   /\ shown' = "rerun"
                   /\ ret' = [op |-> "submit_quiz", saved |-> TRUE]
    /\ UNCHANGED <<authenticated, current_user, users, current_quiz,
                   current_page, requested_page, now>>
    /\ UNCHANGED <<nav_selector, quiz_owner>>

\* quiz.py, show_quiz_results: Take Another Quiz, View Analytics and Back to
\* Dashboard all call reset_quiz_state and st.rerun()
ResetQuiz ==
    /\ authenticated
    /\ shown = "Take Quiz"
    /\ ~IsNone(current_quiz)
    /\ quiz_submitted
    /\ current_quiz' = None
    /\ quiz_answers' = <<>>
    /\ quiz_submitted' = FALSE
    /\ quiz_results' = None
    /\ quiz_owner' = None
    /\ shown' = "rerun"
    /\ ret' = Idle
    /\ UNCHANGED <<session, current_page, requested_page, now>>
    /\ UNCHANGED <<nav_selector, saved_attempts>>

\* time passes
Tick ==
    /\ now < MaxClock
    /\ now' = now + 1
    /\ ret' = Idle
    /\ UNCHANGED <<session, navigation, quizflow>>
    /\ UNCHANGED <<nav_selector, saved_attempts, quiz_owner>>

Next ==
    \/ Rerun
    \/ \E page \in Pages : Navigate(page)
    \/ Logout
    \/ \E form \in AppRegistrations : Register(form[1], form[2], form[3], form[4])
    \/ \E form \in AppLogins : Login(form[1], form[2])
    \/ DemoLogin
    \/ StartFirstQuiz
    \/ TakeFirstQuiz
    \/ \E subject \in AppSubjects, difficulty \in AppDifficulties,
          num_questions \in SliderValues :
            \E env \in AppEnvs(subject, difficulty, num_questions) :
                GenerateQuiz(subject, difficulty, num_questions, env)
    \/ \E sel \in Selections(IF IsNone(current_quiz) THEN [questions |-> <<>>]
                             ELSE TheValue(current_quiz), quiz_answers) :
            SubmitQuizForm(sel)
    \/ ResetQuiz
    \/ Tick

Spec == Init /\ [][Next]_vars

----
\* The navigation alone: show_authenticated_app run on every value that
\* current_page and requested_page may hold, for a user who is logged in.

\* the page names held by the session state: the four pages, the initial
\* 'login' and names of no page
PageNames == Pages \cup {"login", "Settings", ""}

PagesInit ==
    /\ authenticated = TRUE
    /\ current_user = Some("bob")
    /\ users = register_user(<<>>, <<>>, 0, "bob", <<"b", "@", "x">>, "secret").users
    /\ quiz_history = register_user(<<>>, <<>>, 0, "bob", <<"b", "@", "x">>, "secret").quiz_history
    /\ current_page \in PageNames
    /\ requested_page \in {None} \cup {Some(page) : page \in PageNames}
    /\ current_quiz = None
    /\ quiz_answers = <<>>
    /\ quiz_submitted = FALSE
    /\ quiz_results = None
    /\ shown \in {"rerun"} \cup Pages
    /\ now = 0
    /\ nav_selector = None
    /\ saved_attempts = <<>>
    /\ quiz_owner = None
    /\ ret = Idle

PagesNext ==
    \/ Rerun
    \/ \E page \in Pages : Navigate(page)
    \/ StartFirstQuiz
    \/ TakeFirstQuiz
    \/ Logout
    \/ \E form \in AppLogins : Login(form[1], form[2])

SpecPages == PagesInit /\ [][PagesNext]_vars

----
\* The learning streak on its own: calculate_learning_streak on every day of
\* the calendar and every set of days, up to that day, with an attempt.

CallCalculateLearningStreak ==
    /\ ret.op = "none"
    /\ \E today \in 0..MaxDay :
        \E dates \in SUBSET (0..today) :
            ret' = [op |-> "calculate_learning_streak",
                    dates |-> dates,
                    today |-> today,
                    result |-> calculate_learning_streak(dates, today)]
    /\ UNCHANGED <<session, navigation, quizflow, now, nav_selector, saved_attempts, quiz_owner>>

StreakNext == CallCalculateLearningStreak

SpecStreak == Init /\ [][StreakNext]_vars

----
\* The accounts alone: the login page with everything a user may type, and
\* the way in and out of the application.

AccountsNext ==
    \/ \E username \in Usernames, email \in Emails,
          password \in Passwords, confirm_password \in Passwords :
            Register(username, email, password, confirm_password)
    \/ \E username \in Usernames, password \in Passwords : Login(username, password)
    \/ DemoLogin
    \/ Rerun
    \/ Logout
    \/ Tick

SpecAccounts == Init /\ [][AccountsNext]_vars

----
\* The session manager called on its own: its methods in any order, by two
\* users, with the results of a quiz of one question answered rightly or not
\* at all.

StoreUsers == {"bob", "amy"}
StorePasswords == {"secret", "wrong!"}
StoreQuiz == _generate_enhanced_quiz("Machine Learning", "Easy", 1)
StoreAnswerMaps ==
    {<<>>, StrId(StoreQuiz["questions"][1]) :> StoreQuiz["questions"][1]["correct_answer"]}
StoreResults == {evaluate_quiz_answers(StoreQuiz, a).value : a \in StoreAnswerMaps}

CallRegisterUser(username) ==
    /\ LET r == register_user(users, quiz_history, now, username,
                              <<"u", "@", "x">>, "secret")
       IN  /\ users' = r.users
           /\ quiz_history' = r.quiz_history
           /\ ret' = [op |-> "register_user", username |-> username,
                      result |-> [success |-> r.success, message |-> r.message]]
    /\ UNCHANGED <<authenticated, current_user, navigation, quizflow, now,
                   nav_selector, saved_attempts, quiz_owner>>

CallLoginUser(username, password) ==
    /\ LET r == login_user(users, username, password)
       IN  /\ ret' = [op |-> "login_user", username |-> username,
                      password |-> password, result |-> r]
           /\ IF r.success
              THEN /\ authenticated' = TRUE
                   /\ current_user' = Some(username)
              ELSE UNCHANGED <<authenticated, current_user>>
    /\ UNCHANGED <<users, quiz_history, navigation, quizflow, now,
                   nav_selector, saved_attempts, quiz_owner>>

CallLogout ==
    /\ authenticated' = FALSE
    /\ current_user' = None
    /\ ret' = [op |-> "logout"]
    /\ UNCHANGED <<users, quiz_history, navigation, quizflow, now,
                   nav_selector, saved_attempts, quiz_owner>>

CallSaveQuizResult(quiz_data, results) ==
    /\ Len(get_user_quiz_history(authenticated, current_user, quiz_history))
            < StoreHistory
    /\ quiz_history' = save_quiz_result(authenticated, current_user, quiz_history,
                                        now, quiz_data, results)
    /\ saved_attempts' = LogAttempt(saved_attempts, authenticated, current_user,
                                    quiz_data, results)
    /\ ret' = [op |-> "save_quiz_result", quiz_data |-> quiz_data,
               results |-> results]
    /\ UNCHANGED <<authenticated, current_user, users, navigation, quizflow, now,
                   nav_selector, quiz_owner>>

CallGetUserQuizHistory ==
    /\ ret' = [op |-> "get_user_quiz_history",
               result |-> get_user_quiz_history(authenticated, current_user,
                                                quiz_history)]
    /\ UNCHANGED <<session, navigation, quizflow, now, nav_selector, saved_attempts, quiz_owner>>

CallGetCurrentUser ==
    /\ ret' = [op |-> "get_current_user",
               result |-> get_current_user(authenticated, current_user)]
    /\ UNCHANGED <<session, navigation, quizflow, now, nav_selector, saved_attempts, quiz_owner>>

\* dashboard.py, show_dashboard and show_recommendations: the service is
\* given the history of the user logged in
CallGetPersonalizedRecommendations ==
    /\ LET results_list == get_user_quiz_history(authenticated, current_user,
                                                 quiz_history)
       IN  ret' = [op |-> "get_personalized_recommendations",
                   quiz_results |-> results_list,
                   result |-> get_personalized_recommendations(results_list)]
    /\ UNCHANGED <<session, navigation, quizflow, now, nav_selector, saved_attempts, quiz_owner>>

StoreNext ==
    \/ \E username \in StoreUsers : CallRegisterUser(username)
    \/ \E username \in StoreUsers, password \in StorePasswords :
            CallLoginUser(username, password)
    \/ CallLogout
    \/ \E results \in StoreResults : CallSaveQuizResult(StoreQuiz, results)
    \/ CallGetUserQuizHistory
    \/ CallGetCurrentUser
    \/ CallGetPersonalizedRecommendations
    \/ Tick

SpecStore == Init /\ [][StoreNext]_vars

----
\* The statistics on their own: one user saves the results of quizzes of 8
\* and of 10 questions with at most one right answer, and get_user_stats is
\* called on every history.

StatsQuizzes ==
    {_generate_enhanced_quiz("Machine Learning", "Easy", 8),
     _generate_enhanced_quiz("Machine Learning", "Easy", 10)}

\* the answer map with the right label for the first question only
FirstRight(quiz_data) ==
    StrId(quiz_data["questions"][1]) :> quiz_data["questions"][1]["correct_answer"]

\* the attempts: 1 of 8, 0 of 10 and 1 of 10
StatsAttempts ==
    {<<quiz_data, evaluate_quiz_answers(quiz_data, FirstRight(quiz_data)).value>> :
        quiz_data \in StatsQuizzes}
    \cup {<<quiz_data, evaluate_quiz_answers(quiz_data, <<>>).value>> :
            quiz_data \in {q \in StatsQuizzes : q["total_questions"] = 10}}

StatsSaveQuizResult(quiz_data, results) ==
    /\ authenticated
    /\ Len(get_user_quiz_history(authenticated, current_user, quiz_history))
            < StatsHistory
    /\ quiz_history' = save_quiz_result(authenticated, current_user, quiz_history,
                                        now, quiz_data, results)
    /\ saved_attempts' = LogAttempt(saved_attempts, authenticated, current_user,
                                    quiz_data, results)
    /\ ret' = Idle
    /\ UNCHANGED <<authenticated, current_user, users, navigation, quizflow, now,
                   nav_selector, quiz_owner>>

CallGetUserStats ==
    /\ ret.op # "get_user_stats"
    /\ ret' = [op |-> "get_user_stats",
               result |-> get_user_stats(authenticated, current_user, quiz_history)]
    /\ UNCHANGED <<session, navigation, quizflow, now, nav_selector, saved_attempts, quiz_owner>>

StatsNext ==
    \/ CallRegisterUser("bob")
    \/ CallLoginUser("bob", "secret")
    \/ \E attempt \in StatsAttempts : StatsSaveQuizResult(attempt[1], attempt[2])
    \/ CallGetUserStats

SpecStats == Init /\ [][StatsNext]_vars

----
\* Properties of the AI service.

Generated == ret.op = "generate_quiz"
Evaluated == ret.op = "evaluate_quiz_answers" /\ ~ret.result.raised

\* the text holds a JSON object with members somewhere
ContainsObject(text) ==
    \E k \in 1..(Len(text) - 2) : SubSeq(text, k, k + 2) = <<"{", "J", "}">>

\* C1: whenever the requests module is there, whatever the credentials, the
\* outcome of the two HTTP calls and the model's text, generate_quiz returns
\* a quiz whose question list has num_questions entries and whose
\* total_questions is num_questions.
C1_ExactQuestionCount ==
    (Generated /\ ret.env.requests_ok) =>
        /\ ~ret.result.raised
        /\ Len(ret.result.value["questions"]) = ret.num_questions
        /\ ret.result.value["total_questions"] = ret.num_questions

\* the model's quiz failed the validation and the bank, shorter than the
\* request, was padded
C1_Witness ==
    /\ Generated
    /\ ret.result.path = "invalid_quiz"
    /\ ret.subject = "Machine Learning" /\ ret.difficulty = "Easy"
    /\ ret.num_questions = MaxQuestions
    /\ Len(ret.result.value["questions"]) = MaxQuestions

C3_FourOptions ==
    (Generated /\ ~ret.result.raised) =>
        \A i \in 1..Len(ret.result.value["questions"]) :
            LET question == ret.result.value["questions"][i]
            IN  /\ question["options"].type = "dict"
                /\ Cardinality(DOMAIN question["options"].value) = 4
                /\ question["correct_answer"] \in DOMAIN question["options"].value

\* the model's quiz passed the validation and was returned
C3_Witness ==
    /\ Generated
    /\ ret.result.path = "valid_quiz"
    /\ ret.num_questions = MaxQuestions

\* the questions of the evaluated quiz that the user answered with the
\* correct label
RightlyAnswered ==
    {i \in 1..Len(ret.quiz_data["questions"]) :
        LET question == ret.quiz_data["questions"][i]
        IN  /\ StrId(question) \in DOMAIN ret.user_answers
            /\ ret.user_answers[StrId(question)] = question["correct_answer"]}

\* C4: correct_answers is the number of questions whose submitted label is
\* the correct label, a question without a submitted label being incorrect;
\* total_questions is the number of questions; score_percentage is
\* correct_answers / total_questions * 100.
C4_Score ==
    Evaluated =>
        /\ ret.result.value.correct_answers = Cardinality(RightlyAnswered)
        /\ ret.result.value.total_questions = Len(ret.quiz_data["questions"])
        /\ ret.result.value.score_percentage.num * ret.result.value.total_questions
            = ret.result.value.correct_answers * 100
                * ret.result.value.score_percentage.den

\* C5: the performance level is decided by the score percentage: Excellent
\* from 90, Good from 80, Satisfactory from 70, Needs Improvement from 60,
\* Poor below; it is one of these five.
C5_PerformanceLevel ==
    Evaluated =>
        LET score == ret.result.value.score_percentage
            level == ret.result.value.performance_level
            AtLeast(p) == score.num >= p * score.den
        IN  /\ level \in {"Excellent", "Good", "Satisfactory",
                          "Needs Improvement", "Poor"}
            /\ level = "Excellent" <=> AtLeast(90)
            /\ level = "Good" <=> (AtLeast(80) /\ ~AtLeast(90))
            /\ level = "Satisfactory" <=> (AtLeast(70) /\ ~AtLeast(80))
            /\ level = "Needs Improvement" <=> (AtLeast(60) /\ ~AtLeast(70))
            /\ level = "Poor" <=> ~AtLeast(60)

\* a score of exactly 90 percent was rated
C5_Witness ==
    /\ Evaluated
    /\ ret.result.value.total_questions = ScoreQuestions
    /\ ret.result.value.score_percentage.num = 90 * ret.result.value.score_percentage.den
    /\ ret.result.value.performance_level = "Excellent"

\* the model answered: the token call and the generation call both succeeded
TextObtained ==
    /\ Generated
    /\ ret.env.requests_ok
    /\ ret.env.credentials
    /\ ret.env.token = "ok"
    /\ ret.env.generation = "ok"

----
\* Properties of the accounts.

\* C6: register_user with a registered username returns failure and leaves
\* the account (email, password, creation time) and the quiz history of
\* that user as they were.
C6_NoOverwrite ==
    [][(ret'.op = "register_user" /\ ret'.username \in DOMAIN users) =>
        /\ ~ret'.result.success
        /\ ret'.username \in DOMAIN users'
        /\ users'[ret'.username] = users[ret'.username]
        /\ ret'.username \in DOMAIN quiz_history'
        /\ quiz_history'[ret'.username] = quiz_history[ret'.username]]_vars

\* a registered user with an attempt in the history was registered again,
\* later and with another password
C6_Witness ==
    /\ ret.op = "register_user"
    /\ ret.result.message = "Username already exists"
    /\ ret.password # users[ret.username].password
    /\ quiz_history[ret.username] # <<>>
    /\ users[ret.username].created_at < now

\* C7: register_user succeeds exactly when the username is not registered
\* and has 3 characters or more, the password has 6 or more and the email
\* contains "@"; when it fails, the users map and the history map are as
\* they were.
C7_RegistrationRule ==
    [][ret'.op = "register_user" =>
        /\ ret'.result.success <=>
            /\ ret'.username \notin DOMAIN users
            /\ Len(ret'.username) >= 3
            /\ Len(ret'.password) >= 6
            /\ \E i \in 1..Len(ret'.email) : ret'.email[i] = "@"
        /\ ~ret'.result.success => (users' = users /\ quiz_history' = quiz_history)]_vars

\* a registration with a password of 5 characters was refused
C7_Witness ==
    /\ ret.op = "register_user"
    /\ ~ret.result.success
    /\ Len(ret.username) >= 3
    /\ ret.username \notin DOMAIN users
    /\ Len(ret.password) = 5
    /\ \E i \in 1..Len(ret.email) : ret.email[i] = "@"

\* C8: login_user succeeds exactly when the username is registered and the
\* password is the stored one; when it fails, authenticated and
\* current_user are as they were; when it succeeds, authenticated is True
\* and current_user is the username.
C8_LoginRule ==
    [][ret'.op = "login_user" =>
        /\ ret'.result.success <=>
            /\ ret'.username \in DOMAIN users'
            /\ users'[ret'.username].password = ret'.password
        /\ ~ret'.result.success =>
            (authenticated' = authenticated /\ current_user' = current_user)
        /\ ret'.result.success =>
            (authenticated' = TRUE /\ current_user' = Some(ret'.username))]_vars

\* a login with a wrong password for a registered user was refused
C8_Witness ==
    /\ ret.op = "login_user"
    /\ ret.username \in DOMAIN users
    /\ users[ret.username].password # ret.password
    /\ ~ret.result.success
    /\ ~authenticated

----
\* Properties of the quiz flow.

\* C9: the questions of the quiz in play have pairwise distinct answer keys
\* str(id), so that a user who answers every question holds one answer per
\* question.
C9_DistinctAnswerKeys ==
    ~IsNone(current_quiz) =>
        Cardinality(AnswerKeys(TheValue(current_quiz)))
            = Len(TheValue(current_quiz)["questions"])

\* the detail records of all stored attempts
StoredDetails ==
    UNION {UNION {{quiz_history[u][a].detailed_results[i] :
                    i \in 1..Len(quiz_history[u][a].detailed_results)} :
                  a \in 1..Len(quiz_history[u])} :
           u \in DOMAIN quiz_history}

\* C10 as stated: every stored detail record carries the question's offered
\* options next to its other seven fields.
C10_DetailCarriesOptions ==
    \A d \in StoredDetails :
        {"options", "question_id", "question", "user_answer", "correct_answer",
         "is_correct", "explanation", "topic"} \subseteq DOMAIN d

DetailFields ==
    {"question_id", "question", "user_answer", "correct_answer",
     "is_correct", "explanation", "topic"}

\* C10 amended: the detail records of the attempt that a submission stores
\* carry, for each question of the quiz, its id, its text, the user's label,
\* the correct label, the correctness flag, the explanation and the topic,
\* and nothing else: the offered options are not stored.
C10_DetailFields ==
    [][(ret'.op = "submit_quiz" /\ ret'.saved) =>
        LET username == TheValue(current_user')
            attempt == quiz_history'[username][Len(quiz_history'[username])]
            quiz_data == TheValue(current_quiz')
        IN  \A i \in 1..Len(quiz_data["questions"]) :
                LET question == quiz_data["questions"][i]
                    d == attempt.detailed_results[i]
                IN  /\ DOMAIN d = DetailFields
                    /\ d.question_id = question["id"]
                    /\ d.question = question["question"]
                    /\ d.user_answer = quiz_answers'[StrId(question)]
                    /\ d.correct_answer = question["correct_answer"]
                    /\ d.is_correct <=> (d.user_answer = d.correct_answer)
                    /\ d.explanation = question["explanation"]
                    /\ d.topic = question["topic"]]_vars

\* an attempt with a right and a wrong answer is stored
C10_Witness ==
    /\ ret.op = "submit_quiz" /\ ret.saved
    /\ \E d \in StoredDetails : d.is_correct
    /\ \E d \in StoredDetails : ~d.is_correct

\* the records of a list of detail records that are marked correct
CorrectRecords(detailed_results) ==
    {i \in 1..Len(detailed_results) : detailed_results[i].is_correct}

\* the detail records are those of the questions, one each and in their order
OneRecordPerQuestion(detailed_results, quiz_data) ==
    /\ Len(detailed_results) = Len(quiz_data["questions"])
    /\ \A i \in 1..Len(detailed_results) :
        /\ detailed_results[i].question_id = quiz_data["questions"][i]["id"]
        /\ detailed_results[i].question = quiz_data["questions"][i]["question"]

\* C11: the evaluation that a submission makes, and the attempt it stores,
\* hold one detail record per question of the quiz, in the order of the
\* questions, and as many records marked correct as correct_answers says.
C11_OneRecordPerQuestion ==
    [][(ret'.op = "submit_quiz" /\ ret'.saved) =>
        LET username == TheValue(current_user')
            attempt == quiz_history'[username][Len(quiz_history'[username])]
            results == TheValue(quiz_results')
            quiz_data == TheValue(current_quiz')
        IN  /\ OneRecordPerQuestion(results.detailed_results, quiz_data)
            /\ Cardinality(CorrectRecords(results.detailed_results))
                    = results.correct_answers
            /\ OneRecordPerQuestion(attempt.detailed_results, quiz_data)
            /\ Cardinality(CorrectRecords(attempt.detailed_results))
                    = attempt.correct_answers
            /\ attempt.total_questions = Len(attempt.detailed_results)]_vars

\* an attempt of three questions, not all of them answered rightly, is stored
C11_Witness ==
    /\ ret.op = "submit_quiz" /\ ret.saved
    /\ ~IsNone(quiz_results)
    /\ Len(TheValue(quiz_results).detailed_results) = 3
    /\ TheValue(quiz_results).correct_answers
            \in 1..(Len(TheValue(quiz_results).detailed_results) - 1)

----
\* Properties of the stored attempts.

\* the record that a call of save_quiz_result stores
IsRecordOf(record, quiz_data, results) ==
    /\ record.subject = quiz_data["subject"]
    /\ record.difficulty = quiz_data["difficulty"]
    /\ record.total_questions = results.total_questions
    /\ record.correct_answers = results.correct_answers
    /\ record.score = results.score_percentage
    /\ record.performance_level = results.performance_level
    /\ record.detailed_results = results.detailed_results

\* C12: a call of save_quiz_result with a user logged in puts one record of
\* its arguments at the end of that user's history and changes no other
\* history, no account and not who is logged in; with nobody logged in it
\* changes nothing.
C12_SaveAppendsOne ==
    [][ret'.op = "save_quiz_result" =>
        /\ users' = users
        /\ authenticated' = authenticated
        /\ current_user' = current_user
        /\ IF authenticated
           THEN LET username == TheValue(current_user)
                    old == Get(quiz_history, username, <<>>)
                    new == quiz_history'[username]
                IN  /\ DOMAIN quiz_history' = DOMAIN quiz_history \cup {username}
                    /\ Len(new) = Len(old) + 1
                    /\ SubSeq(new, 1, Len(old)) = old
                    /\ IsRecordOf(new[Len(new)], ret'.quiz_data, ret'.results)
                    /\ \A u \in DOMAIN quiz_history \ {username} :
                            quiz_history'[u] = quiz_history[u]
           ELSE quiz_history' = quiz_history]_vars

\* a call has added a second record to the history of one user while the
\* other user has a record, and a call was made with nobody logged in
C12_Witness ==
    /\ ret.op = "save_quiz_result"
    /\ \/ /\ authenticated
          /\ Len(quiz_history[TheValue(current_user)]) = 2
          /\ \E u \in DOMAIN quiz_history \ {TheValue(current_user)} :
                Len(quiz_history[u]) = 1
       \/ /\ ~authenticated
          /\ \E u \in DOMAIN quiz_history : Len(quiz_history[u]) = 1

\* C13: get_user_quiz_history returns, record by record, the attempts that
\* were saved while the user now logged in was logged in, in the order of the
\* calls, and the empty list when nobody is logged in; get_current_user
\* returns None then.
C13_OwnHistoryOnly ==
    /\ ret.op = "get_user_quiz_history" =>
        IF authenticated
        THEN LET saved == Get(saved_attempts, TheValue(current_user), <<>>)
             IN  /\ Len(ret.result) = Len(saved)
                 /\ \A i \in 1..Len(saved) :
                        IsRecordOf(ret.result[i],
                                   [subject |-> saved[i].subject,
                                    difficulty |-> saved[i].difficulty],
                                   saved[i].results)
        ELSE ret.result = <<>>
    /\ (ret.op = "get_current_user" /\ ~authenticated) => IsNone(ret.result)

\* the history of a user with two attempts of different scores is returned
\* while the other user has an attempt too
C13_Witness ==
    /\ ret.op = "get_user_quiz_history"
    /\ authenticated
    /\ Len(ret.result) = 2
    /\ ret.result[1].score # ret.result[2].score
    /\ \E u \in DOMAIN quiz_history \ {TheValue(current_user)} :
            Len(quiz_history[u]) = 1

\* C22: a quiz stays with the user who generated it. Whenever a user is
\* logged in and the quiz flow holds a quiz (with its answers and results),
\* that quiz was generated while the same user was logged in, and every
\* attempt that submit_quiz saves is of a quiz generated under the user in
\* whose history it is stored.
C22_QuizStaysWithItsUser ==
    /\ (authenticated /\ ~IsNone(current_quiz)) => quiz_owner = current_user
    /\ (ret.op = "submit_quiz" /\ ret.saved) => quiz_owner = current_user

\* some user's stored history has one more attempt after the step
HistoryGrows ==
    \E username \in DOMAIN quiz_history' :
        Len(quiz_history'[username]) > Len(Get(quiz_history, username, <<>>))

\* C23: a generated quiz yields at most one record. A step that adds an
\* attempt to a history is the step that marks the current quiz submitted;
\* while the quiz is marked submitted no step evaluates it again, saves it
\* again or replaces it; the mark is cleared only by reset_quiz_state, which
\* removes the quiz; and a quiz in the flow is replaced only after it was
\* removed, by a new call of generate_quiz.
C23_OneRecordPerQuiz ==
    [][/\ (HistoryGrows \/ saved_attempts' # saved_attempts) =>
            /\ ~IsNone(current_quiz)
            /\ ~quiz_submitted
            /\ quiz_submitted'
            /\ current_quiz' = current_quiz
       /\ (quiz_submitted /\ quiz_submitted') =>
            /\ current_quiz' = current_quiz
            /\ quiz_results' = quiz_results
            /\ ~HistoryGrows
            /\ saved_attempts' = saved_attempts
       /\ (quiz_submitted /\ ~quiz_submitted') => IsNone(current_quiz')
       /\ (~IsNone(current_quiz) /\ current_quiz' # current_quiz) =>
            /\ quiz_submitted
            /\ IsNone(current_quiz')
       /\ (IsNone(current_quiz) /\ ~IsNone(current_quiz')) =>
            /\ ret'.op = "generate_quiz"
            /\ ~quiz_submitted'
            /\ IsNone(quiz_results')]_vars

\* the results of a submitted quiz are rendered after the rerun that follows
\* submit_quiz, and the user's history holds the one record of that quiz
C23_Witness ==
    /\ authenticated
    /\ quiz_submitted
    /\ ~IsNone(quiz_results)
    /\ shown = "Take Quiz"
    /\ ret.op = "show_authenticated_app"
    /\ quiz_owner = current_user
    /\ Len(get_user_quiz_history(authenticated, current_user, quiz_history)) = 1

----
\* Properties of the navigation.

\* C14: the run that follows a successful login renders the Dashboard.
C14_DashboardAfterLogin ==
    [][(/\ shown = "rerun"
        /\ ret.op = "login_user"
        /\ ret.result.success
        /\ shown' # "rerun") => shown' = "Dashboard"]_vars

\* the page name that a run of show_authenticated_app works with, from what
\* ret keeps of the run
RequestedName ==
    IF ~IsNone(ret.selected_page) THEN TheValue(ret.selected_page)
    ELSE IF ~IsNone(ret.requested_page) THEN TheValue(ret.requested_page)
    ELSE IF ret.current_page = "login" THEN "Dashboard"
    ELSE ret.current_page

\* C15: after a render of show_authenticated_app, whatever current_page and
\* requested_page held, the page shown and current_page are one of the four
\* pages, and they are the Dashboard when the name was that of no page.
C15_ValidPage ==
    ret.op = "show_authenticated_app" =>
        /\ shown \in {"Dashboard", "Take Quiz", "Analytics", "Profile"}
        /\ current_page \in {"Dashboard", "Take Quiz", "Analytics", "Profile"}
        /\ RequestedName \notin {"Dashboard", "Take Quiz", "Analytics", "Profile"} =>
                (shown = "Dashboard" /\ current_page = "Dashboard")

\* a render has found the name of no page and shown the Dashboard
C15_Witness ==
    /\ ret.op = "show_authenticated_app"
    /\ RequestedName = "Settings"
    /\ shown = "Dashboard"
    /\ current_page = "Dashboard"

\* C16: a render that finds requested_page set to one of the pages shows
\* that page, stores it as current_page and removes requested_page, unless a
\* sidebar button was clicked in the run: then the button's page is shown
\* and stored, and requested_page is removed as well.
C16_RequestedPage ==
    (ret.op = "show_authenticated_app" /\ ~IsNone(ret.requested_page)) =>
        /\ IsNone(requested_page)
        /\ (IsNone(ret.selected_page) /\ TheValue(ret.requested_page) \in Pages) =>
                /\ shown = TheValue(ret.requested_page)
                /\ current_page = TheValue(ret.requested_page)
        /\ ~IsNone(ret.selected_page) =>
                /\ shown = TheValue(ret.selected_page)
                /\ current_page = TheValue(ret.selected_page)

\* the request of the dashboard's button was honoured over another current
\* page
C16_Witness ==
    /\ ret.op = "show_authenticated_app"
    /\ ret.requested_page = Some("Take Quiz")
    /\ IsNone(ret.selected_page)
    /\ ret.current_page = "Dashboard"
    /\ shown = "Take Quiz"

\* C17: the run that follows a press of Take Your First Quiz on the analytics
\* page renders the Take Quiz page.
C17_FirstQuizFromAnalytics ==
    [][(/\ shown = "rerun"
        /\ ret.op = "show_no_data_message"
        /\ shown' # "rerun") => shown' = "Take Quiz"]_vars

\* C20: for the history of the user logged in, get_personalized_recommendations
\* raises nothing and returns between one and five recommendations, and for
\* an empty history the one message to take a first quiz.
C20_RecommendationsReturned ==
    ret.op = "get_personalized_recommendations" =>
        /\ ~ret.result.raised
        /\ Len(ret.result.value) \in 1..5
        /\ ret.quiz_results = <<>> =>
                ret.result.value =
                    <<[text |-> "Take your first quiz to get personalized recommendations!"]>>

\* the sum of three scores, as a fraction
SumOfThree(a, b, c) ==
    [num |-> a.num * b.den * c.den + b.num * a.den * c.den + c.num * a.den * b.den,
     den |-> a.den * b.den * c.den]

\* the fraction x exceeds the fraction y by more than the integer n
ExceedsBy(x, y, n) == x.num * y.den - y.num * x.den > n * x.den * y.den

\* C18: get_user_stats reports the length of the history of the user logged
\* in and the trend of its scores: "No data" without attempts, "Not enough
\* data" with 1 to 5, and with 6 or more "Improving" iff the mean of the last
\* three scores exceeds the mean of the first three by more than 5 (their sum
\* by more than 15), "Declining" iff it is lower by more than 5, and "Stable"
\* otherwise.
C18_ImprovementTrend ==
    ret.op = "get_user_stats" =>
        LET history == IF authenticated THEN quiz_history[TheValue(current_user)]
                       ELSE <<>>
            n == Len(history)
            early == SumOfThree(history[1].score, history[2].score, history[3].score)
            recent == SumOfThree(history[n - 2].score, history[n - 1].score,
                                 history[n].score)
        IN  /\ ret.result.total_quizzes = n
            /\ ret.result.improvement_trend =
                    IF n = 0 THEN "No data"
                    ELSE IF n < 6 THEN "Not enough data"
                    ELSE IF ExceedsBy(recent, early, 15) THEN "Improving"
                    ELSE IF ExceedsBy(early, recent, 15) THEN "Declining"
                    ELSE "Stable"

----
\* Properties of the analytics.

\* the number of consecutive days with an attempt that end on the day last
RECURSIVE ConsecutiveDays(_, _)
ConsecutiveDays(dates, last) ==
    IF last \in dates THEN 1 + ConsecutiveDays(dates, last - 1) ELSE 0

\* C19: calculate_learning_streak returns the number of consecutive days
\* with an attempt that end today, or yesterday when today has no attempt;
\* it returns 0 without attempts and when the latest attempt is older than
\* yesterday.
C19_LearningStreak ==
    ret.op = "calculate_learning_streak" =>
        ret.result = IF ret.today \in ret.dates
                     THEN ConsecutiveDays(ret.dates, ret.today)
                     ELSE ConsecutiveDays(ret.dates, ret.today - 1)

====
